---- MODULE Spec2Model ----
(***************************************************************************)
(* Model of the sample download orchestrator (tools/sample_downloader.py)  *)
(* of apt-analysis-mcp: SampleDownloaderAPI._run_ssh_command,              *)
(* _upload_file, _download_directory and download_samples.                 *)
(*                                                                         *)
(* Strings are modelled as sequences of tokens, so that "" is <<>>, string *)
(* concatenation is \o and "non-empty" is Len(s) > 0.                      *)
(* One process: it is idle, or inside one download_samples call, or inside *)
(* one direct _run_ssh_command call.                                       *)
(***************************************************************************)
EXTENDS Integers, Sequences, FiniteSets, TLC

\* ---------------------------------------------------------------- bounds
MaxHashes == 1          \* longest hash_list a caller passes
MaxRetriesBound == 4    \* largest max_retries of a direct _run_ssh_command call

\* ------------------------------------------------------- program constants
DefaultMaxRetries == 3  \* _run_ssh_command(max_retries: int = 3)

\* Exit statuses of a finished ssh process other than 0: ssh passes on the
\* exit status of the remote command, and exits with 255 when ssh itself
\* fails (connection refused, authentication failure, bastion unreachable).
ScriptErrorExits == {1}
SshErrorExits == {255}

Hashes == {"h1"}
SampleNames == {"s1", "s2"}          \* entries the remote collector can produce
UnrelatedNames == {"u1"}             \* entries of local_output_dir never produced remotely
OutputDirname == "samples"           \* output_dirname: str = "samples"
ExcMsgs == {<<>>, <<"exc">>}         \* str(e) of a raised exception (may be empty)
StderrTexts == {<<>>, <<"stderr">>}  \* captured stderr of a finished process
StdoutTexts == {<<>>, <<"stdout">>}  \* captured stdout of a finished process

\* the fixed message texts of the source, one token each
EmptyListMsg == <<"hash_list_must_not_be_empty">>
UploadPrefix == <<"upload_hash_file_failed: ">>
ScriptPrefix == <<"download_script_failed: ">>
DownloadPrefix == <<"download_files_failed: ">>
ExceptionPrefix == <<"task_exception: ">>
TimeoutMsg == <<"ssh_command_timed_out">>
TimeoutExpiredStr == <<"Command_timed_out_after_N_seconds">>  \* str(subprocess.TimeoutExpired)

\* os.path.abspath(local_output_dir), and os.path.join(local_output_dir, output_dirname)
AbsOutputDir == <<"abs(local_output_dir)">>
JoinedOutputDir == AbsOutputDir \o <<"/", OutputDirname>>

\* os.path.join(temp_dir, output_dirname), temp_dir = tempfile.mkdtemp()
TempDownloadPath == <<"mkdtemp()", "/", OutputDirname>>

HashLists == UNION {[1..n -> Hashes] : n \in 0..MaxHashes}

\* ---- rule_hash_query.py: the mapping file and the queries
MaxRows == 2            \* most rows of a mapping file
Rules == {"RULE_A", "RULE_X"}
Namespaces == {"", "ns1", "ns2"}
\* texts of the sha256List column; "," and " " are the characters the code
\* looks at, every other token is a run of other characters
CellTexts == {<<>>,
              <<"h1", ",", "h2">>,
              <<"h2", ",", "h3">>,
              <<" ", "h1", " ", ",", ",", "h1">>}

\* ---- concurrent calls
Calls == {"c1", "c2"}

VARIABLES
    pc,             \* position of the process: "idle", a step of download_samples, "ssh_direct", "done"
    hash_list, cleanup_remote, flat_output, log_callback,   \* arguments of the running call
    hash_file,      \* TRUE iff the local temp hash-list file (hash_file_path) exists on disk
    temp_dir,       \* TRUE iff the scratch directory of tempfile.mkdtemp() exists
    scratch,        \* entries of temp_download_path
    localDir,       \* names of the entries of local_output_dir
    remoteHashList, \* {workspace}/hashList.txt on the target
    remoteOutDir,   \* {workspace}/{output_dirname} on the target
    ops,            \* transport invocations of the running call, in order, each with its outcome
    result,         \* what the last call gave its caller
    exc,            \* the exception that ended the latest step, and the handler that caught it
    sshFor,         \* who runs _run_ssh_command: "none", "collector", "cleanup", "direct"
    max_retries,    \* its max_retries argument
    attempt,        \* its loop variable
    outcomes,       \* outcomes of its subprocess.run calls so far
    sleeps,         \* number of time.sleep(5) calls so far
    sshRet,         \* its return value
    download_target,\* the local_dir argument of the _download_directory call of the running call
    \* ---- tools/rule_hash_query.py and the get_rule_sha256_list tool of server.py
    csv_file,       \* the mapping file: whether it exists, its header, its rows
    rule_query,     \* the module-level rule_query of server.py: None, or a RuleHashQuery with its mapping
    warned,         \* TRUE iff the start-up code printed "Warning: Failed to load rule hash mapping"
    qpc,            \* "start" before the module-level code of server.py has run, then "ready" / "returned"
    request,        \* arguments of the last query / get_sha256_list / tool call
    q_ret,          \* what that call returned (or raised)
    \* ---- two download_samples calls running at the same time
    cpc,            \* position of each call
    cattempt,       \* loop variable of the call's running _run_ssh_command
    hashListOwner,  \* which call wrote the target's hashList.txt, per remote path
    outDirOwner,    \* whose hash list the target's output directory was collected from, per remote path
    cread,          \* whose hash list the call's collector read
    cgot,           \* the samples of whose hash list the call's download fetched
    cresult         \* the result of each call

inputs == <<hash_list, cleanup_remote, flat_output, log_callback>>
localFs == <<hash_file, temp_dir, scratch, localDir>>
remoteFs == <<remoteHashList, remoteOutDir>>
sshVars == <<sshFor, max_retries, attempt, outcomes, sleeps, sshRet>>
queryVars == <<csv_file, rule_query, warned, qpc, request, q_ret>>
concVars == <<cpc, cattempt, hashListOwner, outDirOwner, cread, cgot, cresult>>
vars == <<pc, inputs, localFs, remoteFs, ops, result, exc, sshVars, download_target,
          queryVars, concVars>>

\* ------------------------------------------------------------ result values
NoResult == [kind |-> "none", success |-> FALSE, local_path |-> <<>>, error |-> <<>>]
Returned(s, p, e) == [kind |-> "return", success |-> s, local_path |-> p, error |-> e]
Raised(msg) == [kind |-> "raised", success |-> FALSE, local_path |-> <<>>, error |-> msg]

NoExc == [at |-> "none", msg |-> <<>>]

NoSshRet == [kind |-> "pending", rc |-> 0, out |-> <<>>, err |-> <<>>]
SshTuple(rc, out, err) == [kind |-> "tuple", rc |-> rc, out |-> out, err |-> err]
SshNone == [kind |-> "None", rc |-> 0, out |-> <<>>, err |-> <<>>]

Absent == [exists |-> FALSE, content |-> <<>>]
NoDir == [exists |-> FALSE, entries |-> {}]

\* --------------------------------------------- outcomes of subprocess.run
\* A finished process (any exit status), subprocess.TimeoutExpired, or
\* another exception.  ssh reports its own failures (connection refused,
\* authentication failure) as a finished process with exit status 255.
Completed(rc, out, err) == [kind |-> "completed", rc |-> rc, out |-> out, err |-> err]
TimedOut == [kind |-> "timeout", rc |-> 0, out |-> <<>>, err |-> <<>>]
Threw(msg) == [kind |-> "exception", rc |-> 0, out |-> <<>>, err |-> msg]

RunOutcomes ==
    {Completed(0, o, <<>>) : o \in StdoutTexts}
    \cup {Completed(r, <<>>, e) : r \in ScriptErrorExits \cup SshErrorExits, e \in StderrTexts}
    \cup {TimedOut}
    \cup {Threw(m) : m \in ExcMsgs}

\* ---- values of the rule-hash part
\* a cell of the sha256List column: a text, or None (csv.DictReader fills
\* the missing fields of a short row with None)
TextCell(t) == [none |-> FALSE, text |-> t]
NoneCell == [none |-> TRUE, text |-> <<>>]
NoCsv == [exists |-> FALSE, header |-> "full", rows |-> <<>>]
NoRuleQuery == [loaded |-> FALSE, mapping |-> <<>>]
NoRequest == [op |-> "none", rule |-> "", given |-> FALSE, namespace |-> ""]
NoResponse == [success |-> FALSE, sha256_hashes |-> <<>>, count |-> 0,
               error_null |-> TRUE, error |-> <<>>]
NoRet == [kind |-> "none", results |-> <<>>, list |-> <<>>, response |-> NoResponse,
          msg |-> <<>>]

\* the parts of the state a specification does not use stay as they are here
DownloadIdle ==
    /\ pc = "idle"
    /\ hash_list = <<>> /\ cleanup_remote = TRUE /\ flat_output = FALSE
    /\ log_callback = "None"
    /\ hash_file = FALSE /\ temp_dir = FALSE /\ scratch = {}
    /\ remoteHashList = Absent /\ remoteOutDir = NoDir
    /\ ops = <<>> /\ result = NoResult /\ exc = NoExc
    /\ sshFor = "none" /\ max_retries = DefaultMaxRetries /\ attempt = 0
    /\ outcomes = <<>> /\ sleeps = 0 /\ sshRet = NoSshRet
    /\ download_target = <<>>

QueryIdle ==
    /\ csv_file = NoCsv /\ rule_query = NoRuleQuery /\ warned = FALSE
    /\ qpc = "off" /\ request = NoRequest /\ q_ret = NoRet

ConcIdle ==
    /\ cpc = [c \in Calls |-> "off"]
    /\ cattempt = [c \in Calls |-> 0]
    /\ hashListOwner = [p \in {"hashList.txt"} \cup Calls |-> "none"]
    /\ outDirOwner = [p \in {"mcp_download"} |-> "none"]
    /\ cread = [c \in Calls |-> "none"]
    /\ cgot = [c \in Calls |-> "none"]
    /\ cresult = [c \in Calls |-> "none"]

Init ==
    /\ DownloadIdle
    /\ localDir \in SUBSET (UnrelatedNames \cup {"s1"})
    /\ QueryIdle
    /\ ConcIdle

\* ------------------------------------------------------ _run_ssh_command
\* (variant: the bound of the retry test is off by one)
ShouldRetryOffByOne(a, mr) == a < mr

\* `if attempt < max_retries - 1` of both except branches
ShouldRetry(a, mr) == a < mr - 1

\* (variant: a finished command is returned only when it exited with 0)
ReturnsResultOnlyOnZero(o) == o.kind = "completed" /\ o.rc = 0

\* what one subprocess.run outcome makes of the loop: TRUE iff the try body
\* reaches `return result.returncode, result.stdout, result.stderr`
ReturnsResult(o) == o.kind = "completed"

\* str(e) of the exception an outcome stands for
StrOfException(o) == IF o.kind = "timeout" THEN TimeoutExpiredStr ELSE o.err

\* the synthetic tuple of the last failed attempt
SyntheticFailure(o) ==
    IF o.kind = "timeout" THEN SshTuple(-1, <<>>, TimeoutMsg)
    ELSE SshTuple(-1, <<>>, o.err)

OpName(who) ==
    IF who = "collector" THEN "ssh_collector"
    ELSE IF who = "cleanup" THEN "ssh_rm" ELSE "ssh_direct"

\* one entry of ops: the operation, and whether its subprocess.run finished
\* with exit status 0
Op(name, o) == [op |-> name, ok |-> (o.kind = "completed" /\ o.rc = 0)]

\* effect of a finished remote command on the target's output directory
RemoteEffect(who, o, produced) ==
    IF o.kind = "completed" /\ o.rc = 0
    THEN IF who = "collector" THEN [exists |-> TRUE, entries |-> produced]
         ELSE IF who = "cleanup" THEN NoDir ELSE remoteOutDir
    ELSE remoteOutDir

\* the locals of a finished _run_ssh_command call are dead
StopSsh ==
    /\ sshFor' = "none" /\ max_retries' = DefaultMaxRetries /\ attempt' = 0
    /\ outcomes' = <<>> /\ sleeps' = 0 /\ sshRet' = NoSshRet

StartSsh(who, mr) ==
    /\ sshFor' = who /\ max_retries' = mr /\ attempt' = 0
    /\ outcomes' = <<>> /\ sleeps' = 0 /\ sshRet' = NoSshRet

\* one iteration of `for attempt in range(max_retries)`
RunSshAttempt(o, produced) ==
    /\ sshFor # "none" /\ sshRet.kind = "pending"
    /\ attempt < max_retries
    /\ (sshFor = "collector" \/ produced = {})
    /\ outcomes' = Append(outcomes, o)
    /\ ops' = Append(ops, Op(OpName(sshFor), o))
    /\ exc' = IF o.kind = "exception" THEN [at |-> "run_ssh_command", msg |-> o.err]
              ELSE NoExc
    /\ remoteOutDir' = RemoteEffect(sshFor, o, produced)
    /\ IF ReturnsResult(o)
       THEN /\ sshRet' = SshTuple(o.rc, o.out, o.err)
            /\ UNCHANGED <<attempt, sleeps>>
       ELSE IF ShouldRetry(attempt, max_retries)
            THEN /\ sleeps' = sleeps + 1
                 /\ attempt' = attempt + 1
                 /\ UNCHANGED sshRet
            ELSE /\ sshRet' = SyntheticFailure(o)
                 /\ UNCHANGED <<attempt, sleeps>>
    /\ UNCHANGED <<pc, inputs, localFs, remoteHashList, result, sshFor, max_retries>>
    /\ UNCHANGED download_target
    /\ UNCHANGED <<queryVars, concVars>>

\* the loop ends without a return statement: the function returns None
RunSshFallThrough ==
    /\ sshFor # "none" /\ sshRet.kind = "pending"
    /\ attempt >= max_retries
    /\ sshRet' = SshNone
    /\ UNCHANGED <<pc, inputs, localFs, remoteFs, ops, result, exc,
                   sshFor, max_retries, attempt, outcomes, sleeps>>
    /\ UNCHANGED download_target
    /\ UNCHANGED <<queryVars, concVars>>

\* a caller other than download_samples runs one command
CallRunSshCommand(mr) ==
    /\ pc = "idle"
    /\ pc' = "ssh_direct"
    /\ StartSsh("direct", mr)
    /\ UNCHANGED <<inputs, localFs, remoteFs, ops, result, exc>>
    /\ UNCHANGED download_target
    /\ UNCHANGED <<queryVars, concVars>>

RunSshCommandReturns ==
    /\ pc = "ssh_direct" /\ sshRet.kind # "pending"
    /\ pc' = "idle"
    /\ StopSsh
    /\ ops' = <<>> /\ exc' = NoExc
    /\ UNCHANGED <<inputs, localFs, remoteFs, result>>
    /\ UNCHANGED download_target
    /\ UNCHANGED <<queryVars, concVars>>

\* ------------------------------------------- _upload_file, _download_directory
\* (variant: the return code is not looked at)
upload_file_ok_when_completed(o) ==
    IF o.kind = "completed" THEN [ok |-> TRUE, error |-> o.err]
    ELSE [ok |-> FALSE, error |-> StrOfException(o)]

\* (ok, error) of _upload_file for one outcome of its single subprocess.run
upload_file(o) ==
    IF o.kind = "completed" THEN [ok |-> (o.rc = 0), error |-> o.err]
    ELSE [ok |-> FALSE, error |-> StrOfException(o)]

\* (variant: the return code is not looked at)
download_directory_ok_when_completed(o) ==
    IF o.kind = "completed" THEN [ok |-> TRUE, error |-> o.err]
    ELSE [ok |-> FALSE, error |-> StrOfException(o)]

\* (ok, error) of _download_directory; the outcome "makedirs" is os.makedirs
\* raising before scp is started
download_directory(o) ==
    IF o.kind = "completed" THEN [ok |-> (o.rc = 0), error |-> o.err]
    ELSE [ok |-> FALSE, error |-> StrOfException(o)]

MakedirsFailed(m) == [kind |-> "makedirs", rc |-> 0, out |-> <<>>, err |-> m]
DownloadOutcomes == RunOutcomes \cup {MakedirsFailed(m) : m \in ExcMsgs}

\* ------------------------------------------------------- download_samples
\* (variant: the emptiness check is missing)
EmptyHashListIgnored(hl) == FALSE

\* `if not hash_list`
EmptyHashList(hl) == hl = <<>>

\* (variant: the handler re-raises)
HandleExceptionReraise(msg) == Raised(msg)

\* `except Exception as e: return False, "", f"...: {str(e)}"`
HandleException(msg) == Returned(FALSE, <<>>, ExceptionPrefix \o msg)

EmptyListFailure == Returned(FALSE, <<>>, EmptyListMsg)
\* (variant: the error is the bare transport text)
UploadFailureNoPrefix(error) == Returned(FALSE, <<>>, error)

UploadFailure(error) == Returned(FALSE, <<>>, UploadPrefix \o error)
ScriptFailure(err) == Returned(FALSE, <<>>, ScriptPrefix \o err)
DownloadFailure(error) == Returned(FALSE, <<>>, DownloadPrefix \o error)

\* (variant: the two branches of `if flat_output` are swapped)
LocalDownloadPathSwapped(flat) == IF flat THEN JoinedOutputDir ELSE AbsOutputDir

\* local_download_path of the two branches of `if flat_output`
LocalDownloadPath(flat) == IF flat THEN AbsOutputDir ELSE JoinedOutputDir
SuccessResult(flat) == Returned(TRUE, LocalDownloadPath(flat), <<>>)

\* the local_dir argument of _download_directory in the two branches:
\* temp_download_path (line 278) or local_download_path (line 303)
DownloadTarget(flat) == IF flat THEN TempDownloadPath ELSE LocalDownloadPath(flat)

\* (variant: the flag is not consulted)
ShouldCleanupAlways(cr) == TRUE

\* `if cleanup_remote`
ShouldCleanup(cr) == cr

\* (variant: the exit code of the collector is not checked)
CollectorNeverFailed(rc) == FALSE

\* `if rc != 0` after the collector command
CollectorFailed(rc) == rc # 0

\* (variant: the output directory is replaced by the moved entry)
MovedIntoReplacing(dir, filename) == {filename}

\* shutil.move(src, dst) of one entry, on the names of local_output_dir
MovedInto(dir, filename) == dir \cup {filename}

\* log(message): calls log_callback when one is given; only a callback can raise
LogCanRaise == log_callback = "callable"

\* an exception reaches the handler of the try block
Throw(msg) ==
    /\ result' = HandleException(msg)
    /\ exc' = [at |-> "handler", msg |-> msg]
    /\ pc' = "done"

Return(r) ==
    /\ result' = r
    /\ pc' = "done"

\* the exception an outcome of subprocess.run (or os.makedirs) stands for,
\* as caught inside the helper `where`
CaughtIn(where, o) ==
    IF o.kind \in {"timeout", "exception", "makedirs"}
    THEN [at |-> where, msg |-> StrOfException(o)]
    ELSE NoExc

\* os.unlink(hash_file_path) followed by `return r`; f = "unlink": unlink raises
UnlinkAndReturn(f, m, r, e) ==
    IF f = "unlink"
    THEN /\ Throw(m) /\ UNCHANGED hash_file
    ELSE /\ f = "ok" /\ m = <<>> /\ hash_file' = FALSE /\ Return(r) /\ exc' = e

CallDownloadSamples(hl, cr, fo, lc) ==
    /\ pc = "idle"
    /\ pc' = "validate"
    /\ hash_list' = hl /\ cleanup_remote' = cr /\ flat_output' = fo
    /\ log_callback' = lc
    /\ UNCHANGED <<localFs, remoteFs, ops, result, exc, sshVars>>
    /\ UNCHANGED download_target
    /\ UNCHANGED <<queryVars, concVars>>

\* lines 219-222: the check of hash_list and the first log call
Validate(f, m) ==
    /\ pc = "validate"
    /\ IF EmptyHashList(hash_list)
       THEN /\ f = "ok" /\ m = <<>> /\ Return(EmptyListFailure)
            /\ UNCHANGED exc
       ELSE \/ /\ f = "log" /\ LogCanRaise /\ Throw(m)
            \/ /\ f = "ok" /\ m = <<>> /\ pc' = "mktemp"
               /\ UNCHANGED <<result, exc>>
    /\ UNCHANGED <<inputs, localFs, remoteFs, ops, sshVars>>
    /\ UNCHANGED download_target
    /\ UNCHANGED <<queryVars, concVars>>

\* lines 225-236: NamedTemporaryFile(delete=False), f.write, two log calls
CreateTempFile(f, m) ==
    /\ pc = "mktemp"
    /\ \/ /\ f = "create" /\ Throw(m) /\ UNCHANGED hash_file
       \/ /\ f = "write" /\ Throw(m) /\ hash_file' = TRUE
       \/ /\ f = "log" /\ LogCanRaise /\ Throw(m) /\ hash_file' = TRUE
       \/ /\ f = "ok" /\ m = <<>> /\ hash_file' = TRUE /\ pc' = "upload"
          /\ UNCHANGED <<result, exc>>
    /\ UNCHANGED <<inputs, temp_dir, scratch, localDir, remoteFs, ops, sshVars>>
    /\ UNCHANGED download_target
    /\ UNCHANGED <<queryVars, concVars>>

\* lines 237-252: the upload, its failure branch, two log calls, the start
\* of the collector command
Upload(o, f, m) ==
    /\ pc = "upload"
    /\ ops' = Append(ops, Op("upload", o))
    /\ IF upload_file(o).ok
       THEN /\ remoteHashList' = [exists |-> TRUE, content |-> hash_list]
            /\ \/ /\ f = "log" /\ LogCanRaise /\ Throw(m)
                  /\ UNCHANGED sshVars
               \/ /\ f = "ok" /\ m = <<>> /\ pc' = "collector"
                  /\ StartSsh("collector", DefaultMaxRetries)
                  /\ UNCHANGED <<result, exc>>
            /\ UNCHANGED hash_file
       ELSE /\ UnlinkAndReturn(f, m, UploadFailure(upload_file(o).error),
                               CaughtIn("upload_file", o))
            /\ UNCHANGED <<remoteHashList, sshVars>>
    /\ UNCHANGED <<inputs, temp_dir, scratch, localDir, remoteOutDir>>
    /\ UNCHANGED download_target
    /\ UNCHANGED <<queryVars, concVars>>

\* lines 252-274: the collector's result, `if rc != 0`, the log calls,
\* os.makedirs(local_output_dir), and tempfile.mkdtemp() when flat_output
AfterCollector(f, m) ==
    /\ pc = "collector" /\ sshRet.kind = "tuple"
    /\ IF CollectorFailed(sshRet.rc)
       THEN /\ UnlinkAndReturn(f, m, ScriptFailure(sshRet.err), exc)
            /\ sshFor' = "none"
            /\ UNCHANGED <<temp_dir, max_retries, attempt, outcomes, sleeps, sshRet>>
       ELSE /\ \/ /\ \/ f = "log" /\ LogCanRaise
                     \/ f = "makedirs"
                     \/ f = "mkdtemp" /\ flat_output
                  /\ Throw(m)
                  /\ UNCHANGED <<hash_file, temp_dir>>
               \/ /\ f = "ok" /\ m = <<>> /\ pc' = "download"
                  /\ temp_dir' = flat_output
                  /\ UNCHANGED <<hash_file, result, exc>>
            /\ StopSsh
    /\ UNCHANGED <<inputs, scratch, localDir, remoteFs, ops>>
    /\ UNCHANGED download_target
    /\ UNCHANGED <<queryVars, concVars>>

\* lines 276-311: _download_directory and what follows it in both branches
\* of `if flat_output`, up to the start of the move loop (flat) or the log
\* call of line 311 (not flat)
Download(o, f, m) ==
    /\ pc = "download"
    /\ (o.kind = "completed" /\ o.rc = 0) => remoteOutDir.exists
    /\ ops' = IF o.kind = "makedirs" THEN ops ELSE Append(ops, Op("scp_download", o))
    /\ IF download_directory(o).ok
       THEN IF flat_output
            THEN \/ /\ f \in {"makedirs", "listdir"} /\ Throw(m)
                    /\ scratch' = remoteOutDir.entries
                    /\ UNCHANGED <<hash_file, temp_dir, localDir>>
                 \/ /\ f = "ok" /\ m = <<>> /\ pc' = "move"
                    /\ scratch' = remoteOutDir.entries
                    /\ UNCHANGED <<hash_file, temp_dir, localDir, result, exc>>
            ELSE /\ localDir' = localDir \cup {OutputDirname}
                 /\ \/ /\ f = "log" /\ LogCanRaise /\ Throw(m)
                    \/ /\ f = "ok" /\ m = <<>> /\ pc' = "cleanup"
                       /\ UNCHANGED <<result, exc>>
                 /\ UNCHANGED <<hash_file, temp_dir, scratch>>
       ELSE /\ temp_dir' = FALSE      \* shutil.rmtree(temp_dir, ignore_errors=True)
            /\ scratch' = {}
            /\ UnlinkAndReturn(f, m, DownloadFailure(download_directory(o).error),
                               CaughtIn("download_directory", o))
            /\ UNCHANGED localDir
    /\ UNCHANGED <<inputs, remoteFs, sshVars>>
    /\ download_target' = DownloadTarget(flat_output)
    /\ UNCHANGED <<queryVars, concVars>>

\* lines 289-292: one iteration of the move loop
MoveEntry(filename, f, m) ==
    /\ pc = "move"
    /\ filename \in scratch
    /\ \/ /\ f = "move" /\ Throw(m)
          /\ UNCHANGED <<scratch, localDir>>
       \/ /\ f = "ok" /\ m = <<>>
          /\ localDir' = MovedInto(localDir, filename)
          /\ scratch' = scratch \ {filename}
          /\ UNCHANGED <<pc, result, exc>>
    /\ UNCHANGED <<inputs, hash_file, temp_dir, remoteFs, ops, sshVars>>
    /\ UNCHANGED download_target
    /\ UNCHANGED <<queryVars, concVars>>

\* lines 295-311: the loop is over; rmtree of the scratch directory, log call
MoveDone(f, m) ==
    /\ pc = "move"
    /\ scratch = {}
    /\ temp_dir' = FALSE
    /\ \/ /\ f = "log" /\ LogCanRaise /\ Throw(m)
       \/ /\ f = "ok" /\ m = <<>> /\ pc' = "cleanup"
          /\ UNCHANGED <<result, exc>>
    /\ UNCHANGED <<inputs, hash_file, scratch, localDir, remoteFs, ops, sshVars>>
    /\ UNCHANGED download_target
    /\ UNCHANGED <<queryVars, concVars>>

\* lines 314-317: `if cleanup_remote`, log call, start of the rm command
Cleanup(f, m) ==
    /\ pc = "cleanup"
    /\ IF ShouldCleanup(cleanup_remote)
       THEN \/ /\ f = "log" /\ LogCanRaise /\ Throw(m)
               /\ UNCHANGED sshVars
            \/ /\ f = "ok" /\ m = <<>> /\ pc' = "rm"
               /\ StartSsh("cleanup", DefaultMaxRetries)
               /\ UNCHANGED <<result, exc>>
       ELSE /\ f = "ok" /\ m = <<>> /\ pc' = "finish"
            /\ UNCHANGED <<result, exc, sshVars>>
    /\ UNCHANGED <<inputs, localFs, remoteFs, ops>>
    /\ UNCHANGED download_target
    /\ UNCHANGED <<queryVars, concVars>>

\* lines 317-322: the result of the rm command is only logged
AfterCleanup(f, m) ==
    /\ pc = "rm" /\ sshRet.kind = "tuple"
    /\ \/ /\ f = "log" /\ LogCanRaise /\ Throw(m)
       \/ /\ f = "ok" /\ m = <<>> /\ pc' = "finish"
          /\ UNCHANGED <<result, exc>>
    /\ sshFor' = "none"
    /\ UNCHANGED <<inputs, localFs, remoteFs, ops,
                   max_retries, attempt, outcomes, sleeps, sshRet>>
    /\ UNCHANGED download_target
    /\ UNCHANGED <<queryVars, concVars>>

\* lines 325-328: unlink of the temp file, last log call, return
Finish(f, m) ==
    /\ pc = "finish"
    /\ \/ /\ f = "unlink" /\ Throw(m) /\ UNCHANGED hash_file
       \/ /\ f = "log" /\ LogCanRaise /\ Throw(m) /\ hash_file' = FALSE
       \/ /\ f = "ok" /\ m = <<>> /\ hash_file' = FALSE
          /\ Return(SuccessResult(flat_output))
          /\ UNCHANGED exc
    /\ UNCHANGED <<inputs, temp_dir, scratch, localDir, remoteFs, ops, sshVars>>
    /\ UNCHANGED download_target
    /\ UNCHANGED <<queryVars, concVars>>

\* the caller has the result; the process is ready for the next call
\* (the bookkeeping of the finished call is dropped; the file systems stay)
ReturnToCaller ==
    /\ pc = "done"
    /\ pc' = "idle"
    /\ hash_list' = <<>> /\ cleanup_remote' = TRUE /\ flat_output' = FALSE
    /\ log_callback' = "None"
    /\ hash_file' = FALSE /\ temp_dir' = FALSE /\ scratch' = {}
    /\ ops' = <<>> /\ result' = NoResult /\ exc' = NoExc
    /\ StopSsh
    /\ UNCHANGED <<localDir, remoteFs>>
    /\ download_target' = <<>>
    /\ UNCHANGED <<queryVars, concVars>>

Faults == {"ok", "log", "create", "write", "unlink", "makedirs", "mkdtemp",
           "listdir", "move"}

\* the download service: calls of download_samples, one after the other
Next ==
    \/ \E hl \in HashLists, cr \in BOOLEAN, fo \in BOOLEAN, lc \in {"None", "callable"} :
          CallDownloadSamples(hl, cr, fo, lc)
    \/ \E f \in Faults, m \in ExcMsgs : Validate(f, m)
    \/ \E f \in Faults, m \in ExcMsgs : CreateTempFile(f, m)
    \/ \E o \in RunOutcomes, f \in Faults, m \in ExcMsgs : Upload(o, f, m)
    \/ \E o \in RunOutcomes, produced \in SUBSET SampleNames : RunSshAttempt(o, produced)
    \/ \E f \in Faults, m \in ExcMsgs : AfterCollector(f, m)
    \/ \E o \in DownloadOutcomes, f \in Faults, m \in ExcMsgs : Download(o, f, m)
    \/ \E n \in SampleNames, f \in Faults, m \in ExcMsgs : MoveEntry(n, f, m)
    \/ \E f \in Faults, m \in ExcMsgs : MoveDone(f, m)
    \/ \E f \in Faults, m \in ExcMsgs : Cleanup(f, m)
    \/ \E f \in Faults, m \in ExcMsgs : AfterCleanup(f, m)
    \/ \E f \in Faults, m \in ExcMsgs : Finish(f, m)
    \/ ReturnToCaller

Spec == Init /\ [][Next]_vars

\* _run_ssh_command on its own, for every max_retries a caller may pass
NextRun ==
    \/ \E mr \in 0..MaxRetriesBound : CallRunSshCommand(mr)
    \/ \E o \in RunOutcomes : RunSshAttempt(o, {})
    \/ RunSshFallThrough
    \/ RunSshCommandReturns

SpecRun == Init /\ [][NextRun]_vars

\* --------------------------------------------- tools/rule_hash_query.py
\* str.split(','): the pieces between the commas, empty pieces included
RECURSIVE SplitFrom(_, _, _)
SplitFrom(t, i, piece) ==
    IF i > Len(t) THEN <<piece>>
    ELSE IF t[i] = "," THEN <<piece>> \o SplitFrom(t, i + 1, <<>>)
    ELSE SplitFrom(t, i + 1, Append(piece, t[i]))

split(t) == SplitFrom(t, 1, <<>>)

\* str.strip(): without the blanks at both ends
RECURSIVE lstrip(_)
lstrip(h) == IF h # <<>> /\ Head(h) = " " THEN lstrip(Tail(h)) ELSE h

RECURSIVE rstrip(_)
rstrip(h) == IF h # <<>> /\ h[Len(h)] = " " THEN rstrip(SubSeq(h, 1, Len(h) - 1)) ELSE h

strip(h) == rstrip(lstrip(h))

\* `[h.strip() for h in sha256_str.split(',') if h.strip()]`
ParseSha256List(t) ==
    LET pieces == split(t)
        stripped == [k \in 1..Len(pieces) |-> strip(pieces[k])]
        Truthy(h) == h # <<>>
    IN SelectSeq(stripped, Truthy)

\* self.mapping is a dict: at most one entry per key, in insertion order
Entry(rule, namespace, cell) == [rule |-> rule, namespace |-> namespace, cell |-> cell]
Row(rule, namespace, cell) == Entry(rule, namespace, cell)

KeyPositions(mapping, rule, namespace) ==
    {k \in 1..Len(mapping) : mapping[k].rule = rule /\ mapping[k].namespace = namespace}

\* `self.mapping[key] = sha256_list`
DictSet(mapping, e) ==
    IF KeyPositions(mapping, e.rule, e.namespace) = {}
    THEN Append(mapping, e)
    ELSE [k \in 1..Len(mapping) |->
             IF k \in KeyPositions(mapping, e.rule, e.namespace) THEN e ELSE mapping[k]]

\* the loop over the rows of the reader (lines 41-47); with a header that
\* has no sha256List column row.get('sha256List', '') is ''
RECURSIVE LoadRows(_, _, _)
LoadRows(mapping, rows, header) ==
    IF rows = <<>> THEN mapping
    ELSE LoadRows(DictSet(mapping,
                          IF header = "no_sha256List"
                          THEN Entry(Head(rows).rule, Head(rows).namespace, TextCell(<<>>))
                          ELSE Head(rows)),
                  Tail(rows), header)

FileNotFoundMsg == <<"mapping_file_does_not_exist">>
ReadFailedPrefix == <<"read_mapping_file_failed: ">>
KeyErrorStr == <<"'rule'">>
AttributeErrorStr == <<"'NoneType' object has no attribute 'split'">>

\* RuleHashQuery.__init__ with _load_mapping: the object, or the exception
load_mapping(csv) ==
    IF ~csv.exists
    THEN [raised |-> TRUE, msg |-> FileNotFoundMsg, mapping |-> <<>>]
    ELSE IF csv.header = "no_rule" /\ csv.rows # <<>>
    THEN [raised |-> TRUE, msg |-> ReadFailedPrefix \o KeyErrorStr, mapping |-> <<>>]
    ELSE [raised |-> FALSE, msg |-> <<>>, mapping |-> LoadRows(<<>>, csv.rows, csv.header)]

\* (variant: the namespace is tested against None)
NamespaceIsNotNone(given, namespace) == given

\* `if namespace:` -- an omitted namespace is None
NamespaceTruthy(given, namespace) == given /\ namespace # ""

\* (variant: the scan does not compare the rule)
RuleMatchesAny(r, rule) == TRUE

\* `if r == rule`
RuleMatches(r, rule) == r = rule

\* RuleHashQuery.query: the list of (rule, namespace, sha256_list), or the
\* AttributeError of None.split
query(mapping, rule, given, namespace) ==
    LET hit == IF NamespaceTruthy(given, namespace)
               THEN KeyPositions(mapping, rule, namespace)
               ELSE {k \in 1..Len(mapping) : RuleMatches(mapping[k].rule, rule)}
        IsHit(e) == \E k \in hit : mapping[k] = e
        hits == SelectSeq(mapping, IsHit)
    IN IF \E k \in 1..Len(hits) : hits[k].cell.none
       THEN [raised |-> TRUE, msg |-> AttributeErrorStr, results |-> <<>>]
       ELSE [raised |-> FALSE, msg |-> <<>>,
             results |-> [k \in 1..Len(hits) |->
                            [rule |-> hits[k].rule, namespace |-> hits[k].namespace,
                             sha256_list |-> ParseSha256List(hits[k].cell.text)]]]

\* all_sha256 after the extend loop (lines 100-103)
RECURSIVE Flatten(_)
Flatten(results) ==
    IF results = <<>> THEN <<>>
    ELSE Head(results).sha256_list \o Flatten(Tail(results))

Range(seq) == {seq[k] : k \in 1..Len(seq)}
NoDuplicates(seq) == \A j, k \in 1..Len(seq) : j # k => seq[j] # seq[k]

\* (variant: the list is returned as collected)
IsCollectedList(all, lst) == lst = all

\* `list(set(all_sha256))`: the elements once each, in an order the set decides
IsListOfSet(all, lst) ==
    /\ Len(lst) = Cardinality(Range(all))
    /\ Range(lst) = Range(all)

\* the lists get_sha256_list can be asked to return for all_sha256
CandidateLists(all) ==
    {all} \cup UNION {[1..n -> Range(all)] : n \in 0..Cardinality(Range(all))}

QueryRequests ==
    {[op |-> "x", rule |-> r, given |-> FALSE, namespace |-> ""] : r \in Rules}
    \cup {[op |-> "x", rule |-> r, given |-> TRUE, namespace |-> n] :
             r \in Rules, n \in Namespaces}

Req(op, a) == [op |-> op, rule |-> a.rule, given |-> a.given, namespace |-> a.namespace]

\* a caller runs rule_query.query(rule, namespace)
CallQuery(a) ==
    /\ qpc = "ready" /\ rule_query.loaded
    /\ LET r == query(rule_query.mapping, a.rule, a.given, a.namespace) IN
          q_ret' = IF r.raised THEN [NoRet EXCEPT !.kind = "raised", !.msg = r.msg]
                   ELSE [NoRet EXCEPT !.kind = "results", !.results = r.results]
    /\ request' = Req("query", a)
    /\ qpc' = "returned"
    /\ UNCHANGED <<csv_file, rule_query, warned>>
    /\ UNCHANGED <<pc, inputs, localFs, remoteFs, ops, result, exc, sshVars,
                   download_target, concVars>>

\* a caller runs rule_query.get_sha256_list(rule, namespace)
CallGetSha256List(a) ==
    /\ qpc = "ready" /\ rule_query.loaded
    /\ LET r == query(rule_query.mapping, a.rule, a.given, a.namespace) IN
          IF r.raised
          THEN q_ret' = [NoRet EXCEPT !.kind = "raised", !.msg = r.msg]
          ELSE \E lst \in CandidateLists(Flatten(r.results)) :
                  /\ IsListOfSet(Flatten(r.results), lst)
                  /\ q_ret' = [NoRet EXCEPT !.kind = "list", !.list = lst]
    /\ request' = Req("get_sha256_list", a)
    /\ qpc' = "returned"
    /\ UNCHANGED <<csv_file, rule_query, warned>>
    /\ UNCHANGED <<pc, inputs, localFs, remoteFs, ops, result, exc, sshVars,
                   download_target, concVars>>

\* the caller has the value
QueryReturns ==
    /\ qpc = "returned"
    /\ qpc' = "ready"
    /\ request' = NoRequest /\ q_ret' = NoRet
    /\ UNCHANGED <<csv_file, rule_query, warned>>
    /\ UNCHANGED <<pc, inputs, localFs, remoteFs, ops, result, exc, sshVars,
                   download_target, concVars>>

\* the rows of a mapping file whose every row has its three fields
GoodRows == {Row(r, n, TextCell(t)) : r \in Rules, n \in Namespaces, t \in CellTexts}
\* a short row: csv.DictReader gives its sha256List as None
ShortRows == {Row(r, n, NoneCell) : r \in Rules, n \in Namespaces}

SeqsUpTo(S, n) == UNION {[1..k -> S] : k \in 0..n}

\* a RuleHashQuery built from a well-formed mapping file
InitQuery ==
    /\ DownloadIdle /\ localDir = {}
    /\ ConcIdle
    /\ \E rows \in SeqsUpTo(GoodRows, MaxRows) :
          /\ csv_file = [exists |-> TRUE, header |-> "full", rows |-> rows]
          /\ rule_query = [loaded |-> TRUE, mapping |-> load_mapping(csv_file).mapping]
    /\ warned = FALSE /\ qpc = "ready" /\ request = NoRequest /\ q_ret = NoRet

NextQuery ==
    \/ \E a \in QueryRequests : CallQuery(a)
    \/ \E a \in QueryRequests : CallGetSha256List(a)
    \/ QueryReturns

SpecQuery == InitQuery /\ [][NextQuery]_vars

\* ------------------------------------------------------------- server.py
NotLoadedMsg == <<"Rule hash mapping not loaded. Please ensure Rule_Hash_Mapping.csv exists.">>
NotFoundPrefix == <<"No SHA256 hashes found for rule: ">>

Response(success, hashes, count, error_null, error) ==
    [success |-> success, sha256_hashes |-> hashes, count |-> count,
     error_null |-> error_null, error |-> error]

\* lines 95-100
NotLoadedResponse == Response(FALSE, <<>>, 0, FALSE, NotLoadedMsg)

\* lines 106-111
NotFoundResponse(rule) == Response(FALSE, <<>>, 0, FALSE, NotFoundPrefix \o <<rule>>)

\* lines 113-118
SuccessResponse(hashes) == Response(TRUE, hashes, Len(hashes), TRUE, <<>>)

\* (variant: the handler answers with error None)
ExceptionResponseNoError(msg) == Response(FALSE, <<>>, 0, TRUE, <<>>)

\* lines 121-126
ExceptionResponse(msg) == Response(FALSE, <<>>, 0, FALSE, msg)

\* `if not sha256_hashes`
IsEmpty(hashes) == hashes = <<>>

\* the mapping files the server can be started on: none, one whose header
\* lacks a column, rows that stop after the namespace field
Headers == {"full", "no_sha256List", "no_rule"}
ServerCellTexts == {<<>>, <<"h1", ",", "h2">>}
ServerRows ==
    {Row(r, n, TextCell(t)) : r \in Rules, n \in Namespaces, t \in ServerCellTexts}
    \cup ShortRows
CsvFiles ==
    {NoCsv} \cup {[exists |-> TRUE, header |-> h, rows |-> rows] :
                     h \in Headers, rows \in SeqsUpTo(ServerRows, MaxRows)}

\* the module body of server.py, lines 22-29
Startup ==
    /\ qpc = "start"
    /\ LET r == load_mapping(csv_file) IN
          IF r.raised
          THEN /\ warned' = TRUE
               /\ rule_query' = NoRuleQuery
          ELSE /\ warned' = FALSE
               /\ rule_query' = [loaded |-> TRUE, mapping |-> r.mapping]
    /\ qpc' = "ready"
    /\ UNCHANGED <<csv_file, request, q_ret>>
    /\ UNCHANGED <<pc, inputs, localFs, remoteFs, ops, result, exc, sshVars,
                   download_target, concVars>>

ToolAnswer(list, response) ==
    [NoRet EXCEPT !.kind = "response", !.list = list, !.response = response]

\* the tool get_rule_sha256_list(rule, namespace)
CallTool(a) ==
    /\ qpc = "ready"
    /\ IF ~rule_query.loaded
       THEN q_ret' = ToolAnswer(<<>>, NotLoadedResponse)
       ELSE LET r == query(rule_query.mapping, a.rule, a.given, a.namespace) IN
               IF r.raised
               THEN q_ret' = ToolAnswer(<<>>, ExceptionResponse(r.msg))
               ELSE \E lst \in CandidateLists(Flatten(r.results)) :
                       /\ IsListOfSet(Flatten(r.results), lst)
                       /\ q_ret' = ToolAnswer(lst, IF IsEmpty(lst)
                                                   THEN NotFoundResponse(a.rule)
                                                   ELSE SuccessResponse(lst))
    /\ request' = Req("get_rule_sha256_list", a)
    /\ qpc' = "returned"
    /\ UNCHANGED <<csv_file, rule_query, warned>>
    /\ UNCHANGED <<pc, inputs, localFs, remoteFs, ops, result, exc, sshVars,
                   download_target, concVars>>

InitServer ==
    /\ DownloadIdle /\ localDir = {}
    /\ ConcIdle
    /\ csv_file \in CsvFiles
    /\ rule_query = NoRuleQuery /\ warned = FALSE
    /\ qpc = "start" /\ request = NoRequest /\ q_ret = NoRet

NextServer ==
    \/ Startup
    \/ \E a \in QueryRequests : CallTool(a)
    \/ QueryReturns

SpecServer == InitServer /\ [][NextServer]_vars

\* ------------------------------- two download_samples calls at the same time
\* Each call runs the remote steps of download_samples in the order of the
\* code; the calls share the target's workspace and take their steps in any
\* interleaving.  A call's hash list is named by the call.
RemoteHashFiles == {"hashList.txt"} \cup Calls
RemoteDirs == {"mcp_download"}

\* (variant: a remote file of the call's own)
RemoteHashFilePerCall(c) == c

\* remote_hash_file, line 237: the same path in every call
RemoteHashFile(c) == "hashList.txt"

\* remote_download_dir, line 268, with the output_dirname of server.py line 60
RemoteDownloadDir(c) == "mcp_download"

ConcOutcomes == {"ok", "failed", "timeout"}

ConcUnchanged ==
    /\ UNCHANGED <<pc, inputs, localFs, remoteFs, ops, result, exc, sshVars,
                   download_target>>
    /\ UNCHANGED queryVars

ConcCall(c) ==
    /\ cpc[c] = "off"
    /\ cpc' = [cpc EXCEPT ![c] = "upload"]
    /\ UNCHANGED <<cattempt, hashListOwner, outDirOwner, cread, cgot, cresult>>
    /\ ConcUnchanged

\* lines 237-242
ConcUpload(c, o) ==
    /\ cpc[c] = "upload" /\ o \in {"ok", "failed"}
    /\ IF o = "ok"
       THEN /\ hashListOwner' = [hashListOwner EXCEPT ![RemoteHashFile(c)] = c]
            /\ cpc' = [cpc EXCEPT ![c] = "collector"]
            /\ UNCHANGED cresult
       ELSE /\ cpc' = [cpc EXCEPT ![c] = "done"]
            /\ cresult' = [cresult EXCEPT ![c] = "upload_failed"]
            /\ UNCHANGED hashListOwner
    /\ UNCHANGED <<cattempt, outDirOwner, cread, cgot>>
    /\ ConcUnchanged

\* lines 248-256: one attempt of the collector command, which reads
\* ./hashList.txt and writes ./{output_dirname}
ConcCollector(c, o) ==
    /\ cpc[c] = "collector" /\ o \in ConcOutcomes
    /\ IF o = "ok"
       THEN /\ cread' = [cread EXCEPT ![c] = hashListOwner[RemoteHashFile(c)]]
            /\ outDirOwner' = [outDirOwner EXCEPT ![RemoteDownloadDir(c)] =
                                  hashListOwner[RemoteHashFile(c)]]
            /\ cpc' = [cpc EXCEPT ![c] = "download"]
            /\ cattempt' = [cattempt EXCEPT ![c] = 0]
            /\ UNCHANGED cresult
       ELSE IF o = "timeout" /\ ShouldRetry(cattempt[c], DefaultMaxRetries)
       THEN /\ cattempt' = [cattempt EXCEPT ![c] = cattempt[c] + 1]
            /\ UNCHANGED <<cpc, cread, outDirOwner, cresult>>
       ELSE /\ cpc' = [cpc EXCEPT ![c] = "done"]
            /\ cattempt' = [cattempt EXCEPT ![c] = 0]
            /\ cresult' = [cresult EXCEPT ![c] = "script_failed"]
            /\ UNCHANGED <<cread, outDirOwner>>
    /\ UNCHANGED <<hashListOwner, cgot>>
    /\ ConcUnchanged

\* lines 276-285: scp -r of the output directory; it can succeed only when
\* the directory is there
ConcDownload(c, o) ==
    /\ cpc[c] = "download" /\ o \in {"ok", "failed"}
    /\ o = "ok" => outDirOwner[RemoteDownloadDir(c)] # "none"
    /\ IF o = "ok"
       THEN /\ cgot' = [cgot EXCEPT ![c] = outDirOwner[RemoteDownloadDir(c)]]
            /\ cpc' = [cpc EXCEPT ![c] = "cleanup"]
            /\ UNCHANGED cresult
       ELSE /\ cpc' = [cpc EXCEPT ![c] = "done"]
            /\ cresult' = [cresult EXCEPT ![c] = "download_failed"]
            /\ UNCHANGED cgot
    /\ UNCHANGED <<cattempt, hashListOwner, outDirOwner, cread>>
    /\ ConcUnchanged

\* lines 314-328: one attempt of `rm -rf {output_dirname}` (cleanup_remote
\* has its default, True); the call succeeds whatever its result
ConcCleanup(c, o) ==
    /\ cpc[c] = "cleanup" /\ o \in ConcOutcomes
    /\ IF o = "timeout" /\ ShouldRetry(cattempt[c], DefaultMaxRetries)
       THEN /\ cattempt' = [cattempt EXCEPT ![c] = cattempt[c] + 1]
            /\ UNCHANGED <<cpc, outDirOwner, cresult>>
       ELSE /\ outDirOwner' = IF o = "ok"
                              THEN [outDirOwner EXCEPT ![RemoteDownloadDir(c)] = "none"]
                              ELSE outDirOwner
            /\ cpc' = [cpc EXCEPT ![c] = "done"]
            /\ cattempt' = [cattempt EXCEPT ![c] = 0]
            /\ cresult' = [cresult EXCEPT ![c] = "success"]
    /\ UNCHANGED <<hashListOwner, cread, cgot>>
    /\ ConcUnchanged

\* the caller has the result
ConcReturn(c) ==
    /\ cpc[c] = "done"
    /\ cpc' = [cpc EXCEPT ![c] = "off"]
    /\ cread' = [cread EXCEPT ![c] = "none"]
    /\ cgot' = [cgot EXCEPT ![c] = "none"]
    /\ cresult' = [cresult EXCEPT ![c] = "none"]
    /\ UNCHANGED <<cattempt, hashListOwner, outDirOwner>>
    /\ ConcUnchanged

InitConc ==
    /\ DownloadIdle /\ localDir = {}
    /\ QueryIdle
    /\ ConcIdle

NextConc ==
    \/ \E c \in Calls : ConcCall(c)
    \/ \E c \in Calls, o \in ConcOutcomes : ConcUpload(c, o)
    \/ \E c \in Calls, o \in ConcOutcomes : ConcCollector(c, o)
    \/ \E c \in Calls, o \in ConcOutcomes : ConcDownload(c, o)
    \/ \E c \in Calls, o \in ConcOutcomes : ConcCleanup(c, o)
    \/ \E c \in Calls : ConcReturn(c)

SpecConc == InitConc /\ [][NextConc]_vars

TypeOK ==
    /\ pc \in {"idle", "validate", "mktemp", "upload", "collector", "download",
               "move", "cleanup", "rm", "finish", "done", "ssh_direct"}
    /\ hash_list \in HashLists
    /\ result.kind \in {"none", "return", "raised"}
    /\ sshFor \in {"none", "collector", "cleanup", "direct"}
    /\ attempt \in 0..MaxRetriesBound

\* ------------------------------------------------------------ properties
LastOp == ops[Len(ops)].op
OpCount(name) == Cardinality({i \in 1..Len(ops) : ops[i].op = name})

\* C1: a download_samples call with a non-empty hash list returns either
\* (True, non-empty path, "") or (False, "", non-empty error), whatever the
\* remote steps do.
DownloadResultShape ==
    (pc = "done" /\ hash_list # <<>>) =>
        /\ result.kind = "return"
        /\ \/ result.success /\ Len(result.local_path) > 0 /\ result.error = <<>>
           \/ ~result.success /\ result.local_path = <<>> /\ Len(result.error) > 0

\* the upload failed and the transport gave no error text at all
UploadFailedWithoutText ==
    /\ pc = "done" /\ hash_list # <<>>
    /\ ops = <<[op |-> "upload", ok |-> FALSE]>>
    /\ ~result.success /\ result.error = UploadPrefix

\* C2: with an empty hash list the call returns the "list is empty" failure
\* and has made no transport invocation and created no temp file.
EmptyListFailsFast ==
    (pc \notin {"idle", "ssh_direct"} /\ hash_list = <<>>) =>
        /\ pc \in {"validate", "done"}
        /\ ops = <<>>
        /\ ~hash_file
        /\ pc = "done" => result = Returned(FALSE, <<>>, EmptyListMsg)

EmptyListRejected ==
    pc = "done" /\ hash_list = <<>> /\ ~result.success

\* C3: retry policy of _run_ssh_command for max_retries >= 1.  After k
\* timeouts (k < max_retries) and a finished attempt the finished command's
\* own result is returned and nothing more is invoked; after max_retries
\* timeouts the result is (-1, "", timeout message); there is one sleep
\* after each attempt but the last.
TimeoutsOnly(k) == \A i \in 1..k : outcomes[i].kind = "timeout"

RetryPolicy ==
    LET n == Len(outcomes) IN
    (sshFor = "direct" /\ max_retries >= 1 /\ TimeoutsOnly(n - 1)) =>
        /\ n <= max_retries
        /\ (sshRet.kind = "pending" /\ TimeoutsOnly(n)) =>
              (n < max_retries /\ sleeps = n)
        /\ sshRet.kind # "pending" =>
              /\ n >= 1
              /\ outcomes[n].kind = "completed" =>
                    /\ sshRet = SshTuple(outcomes[n].rc, outcomes[n].out, outcomes[n].err)
                    /\ sleeps = n - 1
              /\ outcomes[n].kind = "timeout" =>
                    /\ n = max_retries
                    /\ sshRet = SshTuple(-1, <<>>, TimeoutMsg)
                    /\ sleeps = max_retries - 1

TwoTimeoutsThenResult ==
    /\ sshFor = "direct" /\ max_retries = 3
    /\ Len(outcomes) = 3 /\ TimeoutsOnly(2)
    /\ outcomes[3].kind = "completed"
    /\ sshRet.kind = "tuple" /\ sleeps = 2

\* C4: a transport failure of an attempt that is not a timeout (ssh cannot
\* connect or authenticate, or the transport cannot be run) is retried like
\* a timeout, and after max_retries such attempts the result is the
\* synthetic tuple (-1, "", text).
TransportFailure(o) ==
    \/ o.kind = "exception"
    \/ o.kind = "completed" /\ o.rc \in SshErrorExits

TransportFailuresRetried ==
    LET n == Len(outcomes) IN
    (sshFor = "direct" /\ max_retries >= 1 /\ sshRet.kind # "pending"
        /\ n >= 1 /\ TransportFailure(outcomes[n])) =>
        /\ n = max_retries
        /\ sshRet.rc = -1 /\ sshRet.out = <<>>

\* C5: when download_samples returns, the temp hash-list file it created is
\* gone, on every return path.
TempFileRemoved ==
    pc = "done" => ~hash_file

\* C6: download_samples never raises: a fault of a step ends the call with
\* (False, "", text carrying the exception's message).  (A fault of the
\* best-effort remote cleanup command is not a failure of the call: C9.)
NeverPropagates ==
    /\ result.kind # "raised"
    /\ (pc = "done" /\ exc.at = "handler") =>
          result = Returned(FALSE, <<>>, ExceptionPrefix \o exc.msg)
    /\ (pc = "done" /\ exc.at = "upload_file") =>
          result = Returned(FALSE, <<>>, UploadPrefix \o exc.msg)
    /\ (pc = "done" /\ exc.at = "download_directory") =>
          result = Returned(FALSE, <<>>, DownloadPrefix \o exc.msg)
    /\ (pc = "done" /\ exc.at = "run_ssh_command" /\ LastOp = "ssh_collector") =>
          result = Returned(FALSE, <<>>, ScriptPrefix \o exc.msg)

\* a fault while the entries are moved out of the scratch directory
FaultAfterDownload ==
    /\ pc = "done" /\ exc.at = "handler" /\ exc.msg = <<"exc">>
    /\ flat_output /\ temp_dir /\ LastOp = "scp_download"
    /\ ~result.success

\* C7: the transport invocations of one call come in the order upload,
\* collector, directory download, remote removal; a later step starts only
\* after the earlier one succeeded, and nothing follows a failed step but
\* the retries of a command.
Rank(name) ==
    CASE name = "upload" -> 1
      [] name = "ssh_collector" -> 2
      [] name = "scp_download" -> 3
      [] name = "ssh_rm" -> 4
      [] OTHER -> 0

StepsOrdered ==
    /\ ops # <<>> => ops[1].op = "upload"
    /\ \A i \in 1..(Len(ops) - 1) :
          \/ /\ ops[i + 1].op = ops[i].op
             /\ ops[i].op \in {"ssh_collector", "ssh_rm"}
             /\ ~ops[i].ok
          \/ /\ Rank(ops[i + 1].op) = Rank(ops[i].op) + 1
             /\ ops[i].ok
    /\ OpCount("ssh_collector") <= DefaultMaxRetries
    /\ OpCount("ssh_rm") <= DefaultMaxRetries
    /\ (pc = "done" /\ ops # <<>> /\ LastOp # "ssh_rm" /\ ~ops[Len(ops)].ok) =>
          ~result.success

AllStepsRun ==
    /\ pc = "done" /\ result.success
    /\ Len(ops) = 5
    /\ ops[2] = [op |-> "ssh_collector", ok |-> FALSE]
    /\ ops[3] = [op |-> "ssh_collector", ok |-> TRUE]
    /\ LastOp = "ssh_rm"

\* C8: a collector command that finishes with a non-zero exit code is not
\* run again, no directory download follows, and the call fails with the
\* remote stderr in its error.
NonZeroExitNotRetried ==
    LET n == Len(outcomes) IN
    /\ \A i \in 1..n : outcomes[i].kind = "completed" =>
          (i = n /\ sshRet.kind = "tuple")
    /\ (pc = "done" /\ n >= 1 /\ LastOp = "ssh_collector"
          /\ outcomes[n].kind = "completed" /\ outcomes[n].rc # 0) =>
          /\ OpCount("ssh_collector") = n
          /\ OpCount("scp_download") = 0
          /\ ~result.success
          /\ exc.at # "handler" =>
                result = Returned(FALSE, <<>>, ScriptPrefix \o outcomes[n].err)

CollectorExitedNonZero ==
    /\ pc = "done"
    /\ ops = <<[op |-> "upload", ok |-> TRUE], [op |-> "ssh_collector", ok |-> FALSE]>>
    /\ outcomes[1].kind = "completed" /\ outcomes[1].rc \in ScriptErrorExits
    /\ result = Returned(FALSE, <<>>, ScriptPrefix \o <<"stderr">>)

\* C9: once the removal command has been run, the call returns success with
\* the same path whatever the command's result was; without cleanup_remote
\* no removal command is run.
CleanupNonFatal ==
    /\ ~cleanup_remote => OpCount("ssh_rm") = 0
    /\ (pc = "done" /\ ops # <<>> /\ LastOp = "ssh_rm" /\ exc.at # "handler") =>
          result = Returned(TRUE,
                            IF flat_output THEN AbsOutputDir ELSE JoinedOutputDir,
                            <<>>)

\* the removal command timed out three times and the call succeeded
CleanupExhaustedYetSuccess ==
    /\ pc = "done" /\ result.success
    /\ OpCount("ssh_rm") = DefaultMaxRetries
    /\ sshRet = SshTuple(-1, <<>>, TimeoutMsg)
    /\ remoteOutDir.exists

\* C10: a flat_output call never removes an entry of local_output_dir, and
\* what it adds are retrieved entries, under their own names (entries are
\* modelled by their names).
FlatOutputFrame ==
    [][flat_output =>
          /\ localDir \subseteq localDir'
          /\ localDir' \subseteq localDir \cup scratch
          /\ (OutputDirname \in localDir') => (OutputDirname \in localDir)]_vars

FlatOutputAdded ==
    /\ pc = "done" /\ flat_output /\ result.success
    /\ UnrelatedNames \subseteq localDir
    /\ SampleNames \subseteq localDir
    /\ OutputDirname \notin localDir

\* C11: on success local_path is the absolute local_output_dir (flat) or
\* local_output_dir joined with output_dirname (not flat); when not flat the
\* directory download is given exactly that joined path as its target.
ReturnedLocalPath ==
    /\ (pc = "done" /\ result.success) =>
          result.local_path = IF flat_output THEN AbsOutputDir
                              ELSE AbsOutputDir \o <<"/", OutputDirname>>
    /\ (OpCount("scp_download") > 0 /\ ~flat_output) =>
          download_target = AbsOutputDir \o <<"/", OutputDirname>>
    /\ (pc = "done" /\ result.success /\ ~flat_output) =>
          download_target = result.local_path

NonFlatSuccess ==
    /\ pc = "done" /\ result.success /\ ~flat_output
    /\ OpCount("scp_download") = 1
    /\ result.local_path = JoinedOutputDir
    /\ OutputDirname \in localDir

\* C12: get_sha256_list returns a list without duplicates whose elements are
\* exactly the hashes of the entries that query(rule, namespace) matches;
\* for (RULE_A,ns1) -> "h1,h2" and (RULE_A,ns2) -> "h2,h3" they are h1, h2, h3.
MatchedHashes ==
    UNION {Range(e.sha256_list) :
             e \in Range(query(rule_query.mapping, request.rule, request.given,
                               request.namespace).results)}

ExampleMapping ==
    <<Entry("RULE_A", "ns1", TextCell(<<"h1", ",", "h2">>)),
      Entry("RULE_A", "ns2", TextCell(<<"h2", ",", "h3">>))>>

DeduplicatedUnion ==
    (request.op = "get_sha256_list" /\ q_ret.kind = "list") =>
        /\ NoDuplicates(q_ret.list)
        /\ Range(q_ret.list) = MatchedHashes
        /\ \A h \in Range(q_ret.list) :
              h # <<>> /\ Head(h) # " " /\ h[Len(h)] # " " /\ "," \notin Range(h)
        /\ (rule_query.mapping = ExampleMapping /\ request.rule = "RULE_A"
              /\ ~request.given) =>
              Range(q_ret.list) = {<<"h1">>, <<"h2">>, <<"h3">>}

ExampleQueried ==
    /\ request.op = "get_sha256_list" /\ q_ret.kind = "list"
    /\ rule_query.mapping = ExampleMapping
    /\ request.rule = "RULE_A" /\ ~request.given
    /\ Len(q_ret.list) = 3

\* C19: query does an exact (rule, namespace) lookup -- no entry or one --
\* whenever a namespace is given, the empty string included, and returns all
\* the entries of the rule only when the namespace is omitted.
ExactWheneverGiven ==
    (request.op = "query" /\ q_ret.kind = "results") =>
        /\ request.given =>
              /\ Len(q_ret.results) =
                    Cardinality(KeyPositions(rule_query.mapping, request.rule,
                                             request.namespace))
              /\ Len(q_ret.results) <= 1
              /\ \A e \in Range(q_ret.results) :
                    e.rule = request.rule /\ e.namespace = request.namespace
        /\ ~request.given =>
              Len(q_ret.results) =
                 Cardinality({k \in 1..Len(rule_query.mapping) :
                                 rule_query.mapping[k].rule = request.rule})

\* C13: for a rule that no entry of the loaded mapping has, get_sha256_list
\* returns the empty list and the tool answers success=false with no
\* hashes, count 0 and the "no hashes found" error.
RuleAbsent ==
    /\ rule_query.loaded
    /\ \A k \in 1..Len(rule_query.mapping) : rule_query.mapping[k].rule # request.rule

AbsentRuleNotFound ==
    (request.op = "get_rule_sha256_list" /\ q_ret.kind = "response" /\ RuleAbsent) =>
        /\ q_ret.list = <<>>
        /\ ~q_ret.response.success
        /\ q_ret.response.sha256_hashes = <<>>
        /\ q_ret.response.count = 0
        /\ ~q_ret.response.error_null
        /\ q_ret.response.error = NotFoundPrefix \o <<request.rule>>

AbsentRuleAsked ==
    /\ request.op = "get_rule_sha256_list" /\ q_ret.kind = "response" /\ RuleAbsent
    /\ request.rule = "RULE_X"
    /\ \E k \in 1..Len(rule_query.mapping) :
          /\ rule_query.mapping[k].rule = "RULE_A"
          /\ ~rule_query.mapping[k].cell.none
          /\ rule_query.mapping[k].cell.text # <<>>

\* C20: in every response of get_rule_sha256_list -- mapping not loaded, no
\* match, match, exception -- count is the length of sha256_hashes, success
\* holds exactly when that list is non-empty, and error is null exactly on
\* success.
ResponseConsistent ==
    (request.op = "get_rule_sha256_list" /\ q_ret.kind = "response") =>
        /\ q_ret.response.count = Len(q_ret.response.sha256_hashes)
        /\ q_ret.response.success <=> q_ret.response.sha256_hashes # <<>>
        /\ q_ret.response.error_null <=> q_ret.response.success

ExceptionAnswered ==
    /\ request.op = "get_rule_sha256_list" /\ q_ret.kind = "response"
    /\ rule_query.loaded
    /\ q_ret.response = ExceptionResponse(AttributeErrorStr)

\* C14: a mapping file that is missing or has a malformed row makes the
\* load fail at start-up as a hard error: no later query is the place where
\* the failure is first reported, and none is answered after a failed load.
Malformed(csv) ==
    \/ ~csv.exists
    \/ \E k \in 1..Len(csv.rows) : csv.header = "no_rule" \/ csv.rows[k].cell.none

LoadFailsAtStartup ==
    /\ (qpc # "start" /\ Malformed(csv_file)) => (warned /\ ~rule_query.loaded)
    /\ (q_ret.kind = "response" /\ q_ret.response.error = AttributeErrorStr) => warned
    /\ warned => q_ret.kind # "response"

\* the last transport operation of the call, if any
LastOpRecord == IF ops = <<>> THEN [op |-> "none", ok |-> FALSE] ELSE ops[Len(ops)]

\* C16: after a successful call with cleanup_remote set whose removal
\* command succeeded, neither the uploaded hashList.txt nor the output
\* directory remains on the target.
RemovalSucceeded ==
    /\ cleanup_remote /\ LastOpRecord = [op |-> "ssh_rm", ok |-> TRUE]
    /\ sshRet.kind = "tuple" /\ sshRet.rc = 0

RemoteArtefactsRemoved ==
    (pc = "done" /\ result.success /\ RemovalSucceeded) =>
        /\ ~remoteOutDir.exists
        /\ ~remoteHashList.exists

\* C17: with flat_output the scratch directory is gone on every return of
\* download_samples taken after its creation.
ScratchRemoved ==
    (pc = "done" /\ flat_output) => ~temp_dir

\* C18: _upload_file and _download_directory run the transport once per
\* call, hand a timeout or transport error back as (false, text) rather than
\* raising, and report ok exactly when the exit code is 0.
TransferOps == {k \in 1..Len(ops) : ops[k].op \in {"upload", "scp_download"}}

PrefixOf(op) == IF op = "upload" THEN UploadPrefix ELSE DownloadPrefix

SingleShotTransfers ==
    /\ OpCount("upload") <= 1 /\ OpCount("scp_download") <= 1
    /\ \A k \in TransferOps :
          \/ ops[k].ok /\ (k < Len(ops) \/ pc # "done" \/ result.success
                           \/ exc.at = "handler")
          \/ ~ops[k].ok /\ k = Len(ops) /\ pc = "done" /\ ~result.success
    /\ (pc = "done" /\ exc.at = "upload_file") => result = UploadFailure(exc.msg)
    /\ (pc = "done" /\ exc.at = "download_directory") =>
          result = DownloadFailure(exc.msg)
    /\ (pc = "done" /\ LastOpRecord.op \in {"upload", "scp_download"}
          /\ ~LastOpRecord.ok /\ exc.at # "handler") =>
          /\ result.kind = "return"
          /\ SubSeq(result.error, 1, Len(PrefixOf(LastOpRecord.op))) =
                PrefixOf(LastOpRecord.op)

TransferTimedOut ==
    /\ pc = "done" /\ exc.at = "download_directory" /\ exc.msg = TimeoutExpiredStr
    /\ LastOpRecord = [op |-> "scp_download", ok |-> FALSE]
    /\ OpCount("upload") = 1
    /\ result = DownloadFailure(TimeoutExpiredStr)

\* C15: concurrent calls use the same hashList.txt and the same output
\* directory with nothing to keep them apart: a call's collector reads
\* whatever list any call uploaded last to {workspace}/hashList.txt, and a
\* call's successful removal deletes {workspace}/{output_dirname} whether or
\* not another call has yet to retrieve it; so a collision is reachable.
SharedRemotePaths ==
    [][\A c \in Calls :
          /\ (cpc[c] = "collector" /\ cpc'[c] = "download") =>
                /\ cread'[c] = hashListOwner["hashList.txt"]
                /\ outDirOwner'["mcp_download"] = hashListOwner["hashList.txt"]
          /\ (cpc[c] = "upload" /\ cpc'[c] = "collector") =>
                hashListOwner'["hashList.txt"] = c
          /\ (cpc[c] = "download" /\ cpc'[c] = "cleanup") =>
                cgot'[c] = outDirOwner["mcp_download"]
          /\ \A other \in Calls \ {c} :
                (cpc[c] = "cleanup" /\ cresult'[c] = "success"
                   /\ cpc[other] = "download"
                   /\ outDirOwner'["mcp_download"] # outDirOwner["mcp_download"]) =>
                      outDirOwner'["mcp_download"] = "none"]_vars

\* c1's collector has read the list c2 uploaded, c1 has fetched c2's samples
\* and returned success, and its removal has taken the directory away
\* before c2 retrieves it
Collision ==
    /\ cread["c1"] = "c2" /\ cgot["c1"] = "c2" /\ cresult["c1"] = "success"
    /\ cpc["c2"] = "download" /\ cread["c2"] = "c2"
    /\ outDirOwner["mcp_download"] = "none"

\* C21: the removal command is issued only past a successful directory
\* download: when the collector has succeeded and the directory download
\* fails, no removal command is run even with cleanup_remote set, and the
\* output directory is still on the target when the call returns.
CollectorSucceeded == \E k \in 1..Len(ops) : ops[k] = [op |-> "ssh_collector", ok |-> TRUE]

DownloadStepFailed ==
    /\ pc = "done" /\ ~result.success /\ CollectorSucceeded
    /\ \/ LastOpRecord = [op |-> "scp_download", ok |-> FALSE]
       \/ /\ LastOpRecord.op = "ssh_collector"
          /\ SubSeq(result.error, 1, Len(DownloadPrefix)) = DownloadPrefix

RemovalOnlyAfterDownload ==
    /\ \A k \in 1..Len(ops) :
          ops[k].op = "ssh_rm" =>
             /\ cleanup_remote
             /\ \E j \in 1..(k - 1) : ops[j] = [op |-> "scp_download", ok |-> TRUE]
    /\ DownloadStepFailed =>
          /\ OpCount("ssh_rm") = 0
          /\ remoteOutDir.exists

OutputDirLeftBehind ==
    /\ DownloadStepFailed /\ cleanup_remote
    /\ LastOpRecord = [op |-> "scp_download", ok |-> FALSE]
    /\ exc = NoExc
    /\ result.kind = "return"
    /\ SubSeq(result.error, 1, Len(DownloadPrefix)) = DownloadPrefix
    /\ remoteOutDir.exists /\ remoteOutDir.entries # {}
    /\ OpCount("ssh_rm") = 0
====
